---------------------------- MODULE Spec2Model ----------------------------
(***************************************************************************)
(* A model of src/src/sph.cpp: the SPH test drivers of taichi.             *)
(*                                                                         *)
(*   Spec      the sph task: construction, the advance() loop, both        *)
(*             variants' frame counter and output hook                     *)
(*   SpecBF    SPHTestBruteForce::substep on a small particle vector,      *)
(*             one particle of one pass per step                           *)
(*   SpecGrid  SPHTestPangu::substep (one migration pass per step) on a    *)
(*             small block grid                                            *)
(*   SpecBlock the block-update callback of SPHTestPangu::substep applied  *)
(*             to one block and one ancestor neighbourhood                 *)
(*                                                                         *)
(* real (float) values are carried as decimal floating-point numbers       *)
(* m * 10^e with a four-digit mantissa, rounded to nearest after every     *)
(* operation, as the float operations of the source round after every      *)
(* operation (to 24 binary digits there). A division by zero gives NaN.    *)
(***************************************************************************)
EXTENDS Integers, Sequences, FiniteSets, TLC

\* ------------------------------------------------------------------ real

Abs(x) == IF x < 0 THEN -x ELSE x

Sign(x) == IF x < 0 THEN -1 ELSE 1

\* 10^n for n in 0..9.
Pow10(n) ==
    <<1, 10, 100, 1000, 10000, 100000, 1000000, 10000000, 100000000,
      1000000000>>[n + 1]

\* The number of decimal digits of a positive integer.
NumDigits(x) ==
    IF x < 10000
    THEN (IF x < 100 THEN (IF x < 10 THEN 1 ELSE 2)
          ELSE (IF x < 1000 THEN 3 ELSE 4))
    ELSE IF x < 1000000 THEN (IF x < 100000 THEN 5 ELSE 6)
    ELSE IF x < 100000000 THEN (IF x < 10000000 THEN 7 ELSE 8)
    ELSE IF x < 1000000000 THEN 9 ELSE 10

Zero == [m |-> 0, e |-> 0]

NaN == [m |-> 0, e |-> 999]

IsNaN(a) == a.e = 999

\* The real nearest to m * 10^e with a mantissa of four digits (ties away
\* from zero).
Norm(m, e) ==
    IF m = 0 THEN Zero
    ELSE LET a == Abs(m)
             d == NumDigits(a)
         IN  IF d <= 4
             THEN [m |-> m * Pow10(4 - d), e |-> e - (4 - d)]
             ELSE LET p == Pow10(d - 4)
                      r == (a + p \div 2) \div p
                  IN  IF r = 10000
                      THEN [m |-> Sign(m) * 1000, e |-> e + (d - 4) + 1]
                      ELSE [m |-> Sign(m) * r, e |-> e + (d - 4)]

\* The literal m * 10^e of the source.
Dec(m, e) == Norm(m, e)

FromInt(i) == Norm(i, 0)

FNeg(a) == [m |-> -a.m, e |-> a.e]

FMul(a, b) ==
    IF IsNaN(a) \/ IsNaN(b) THEN NaN ELSE Norm(a.m * b.m, a.e + b.e)

FDiv(a, b) ==
    IF IsNaN(a) \/ IsNaN(b) \/ b.m = 0 THEN NaN
    ELSE Norm(Sign(a.m) * Sign(b.m) * ((Abs(a.m) * 100000) \div Abs(b.m)),
              a.e - b.e - 5)

\* a + b: the operand that is smaller by more than four digits is lost in
\* the rounding.
FAdd(a, b) ==
    IF IsNaN(a) \/ IsNaN(b) THEN NaN
    ELSE IF a.m = 0 THEN b
    ELSE IF b.m = 0 THEN a
    ELSE IF a.e - b.e > 4 THEN a
    ELSE IF b.e - a.e > 4 THEN b
    ELSE IF a.e >= b.e THEN Norm(a.m * Pow10(a.e - b.e) + b.m, b.e)
    ELSE Norm(a.m + b.m * Pow10(b.e - a.e), a.e)

FSub(a, b) == FAdd(a, FNeg(b))

\* a < b of two reals that are not NaN: by sign, then exponent, then
\* mantissa (mantissas have four digits).
Less(a, b) ==
    IF a.m = 0 \/ b.m = 0 \/ (a.m < 0) # (b.m < 0) \/ a.e = b.e THEN a.m < b.m
    ELSE IF a.m > 0 THEN a.e < b.e
    ELSE b.e < a.e

\* a < b and a <= b (false when either is NaN, as in IEEE 754).
FLt(a, b) == ~IsNaN(a) /\ ~IsNaN(b) /\ Less(a, b)

FLe(a, b) == ~IsNaN(a) /\ ~IsNaN(b) /\ ~Less(b, a)

\* std::max(a, b) == (a < b) ? b : a and std::min(a, b) == (b < a) ? b : a.
FMax(a, b) == IF FLt(a, b) THEN b ELSE a

FMin(a, b) == IF FLt(b, a) THEN b ELSE a

\* pow<n>(x)
RECURSIVE FPow(_, _)
FPow(x, n) == IF n = 0 THEN FromInt(1) ELSE FMul(x, FPow(x, n - 1))

\* (int) x: the integer part of a real that is an integer's worth of digits.
Trunc(a) ==
    IF a.e >= 0 THEN a.m * Pow10(a.e) ELSE Sign(a.m) * (Abs(a.m) \div Pow10(-a.e))

\* ---------------------------------------------------------------- vector

Axes == 1..3

Vec(x, y, z) == <<x, y, z>>

VZero == Vec(Zero, Zero, Zero)

VAdd(a, b) == <<FAdd(a[1], b[1]), FAdd(a[2], b[2]), FAdd(a[3], b[3])>>

VSub(a, b) == <<FSub(a[1], b[1]), FSub(a[2], b[2]), FSub(a[3], b[3])>>

VScale(a, s) == <<FMul(a[1], s), FMul(a[2], s), FMul(a[3], s)>>

length2(a) == FAdd(FAdd(FMul(a[1], a[1]), FMul(a[2], a[2])), FMul(a[3], a[3]))

\* Vector3i(...).template cast<real>()
VecOfInts(a) == <<FromInt(a[1]), FromInt(a[2]), FromInt(a[3])>>

\* a + b of two Vector3i.
VAddInts(a, b) == <<a[1] + b[1], a[2] + b[2], a[3] + b[3]>>

\* a <= b and a < b of two vectors: on every axis.
VLe(a, b) == \A i \in Axes : FLe(a[i], b[i])

VLt(a, b) == \A i \in Axes : FLt(a[i], b[i])

\* ------------------------------------------------------------- constants

N == 20

grid_resolution == <<N, N, N>>

\* Block::size of TBlock<char, Particle>, the same on every axis. It is
\* defined in taichi_grid.h; the model takes blocks of 4 cells.
BlockSize == 4

\* The fields SPHTestBase::SPHTestBase sets.
gravity == Vec(Zero, FromInt(-100), Zero)

dx == FDiv(FromInt(1), FromInt(grid_resolution[1]))

frame_dt == Dec(1, -1)

dt == Dec(3, -4)

inv_dx == FDiv(FromInt(1), dx)

total_frames == 128

domain_size == VScale(VecOfInts(grid_resolution), dx)

h == FDiv(dx, FromInt(2))

inv_h == FDiv(FromInt(1), h)

\* The constants of SPHTestBruteForce::substep.
pi == Dec(3142, -3)

c == FDiv(FromInt(315), FMul(FMul(FromInt(64), pi), FPow(h, 9)))

rho0 == FromInt(1)

k == Dec(1, -8)

\* ---------------------------------------------------------------- bounds

\* Particles in the vector of the brute-force variant.
MaxParticles == 2

\* substep() calls of one brute-force run of the model.
MaxSubsteps == 3

\* Particles in the block grid.
MaxGridParticles == 2

\* Migration passes of one run of the model.
MaxPasses == 2

\* ----------------------------------------------------------------- state

VARIABLES
    variant,        \* "bf" or "pangu": the class the sph task constructs
    pc,             \* where the run is
    t,              \* the loop variable of the sph task
    i,              \* the loop variable of advance()
    current_frame,  \* SPHTestBase::current_frame
    outputs,        \* calls of output() so far
    advances,       \* advance() calls completed so far
    substeps,       \* substep() calls of the current (or last) advance()
    particles,      \* SPHTestBruteForce::particles
    idx,            \* the particle the running pass of substep() is at
    snap,           \* particles as the density pass left them
    trace,          \* per particle: the locals of its last density and force step
    initial,        \* particles as constructed
    nsub,           \* substep() calls completed by the brute-force run
    grid,           \* SPHTestPangu::grid: block coordinate -> block
    prev,           \* the generation the last migration pass read
    passes,         \* migration passes completed
    failed,         \* a TC_ASSERT has failed: the run is over
    block_in,       \* the arguments of one call of the block-update callback
    block_out       \* what the call left

driverVars == <<variant, pc, t, i, current_frame, outputs, advances, substeps>>

bfVars == <<particles, idx, snap, trace, initial, nsub>>

gridVars == <<grid, prev, passes, failed>>

blockVars == <<block_in, block_out>>

vars == <<driverVars, bfVars, gridVars, blockVars>>

\* ------------------------------------------------------------ block grid

\* A block coordinate no block has been touched at.
NoBlock == [absent |-> TRUE]

\* The block coordinates (in blocks) of the model's grids.
GridCoords == {<<x, y, 0>> : x \in 0..2, y \in 0..1}

\* The 3^3 offsets of a block's ancestor neighbourhood, in the order
\* Ancestors::data holds them.
OffsetSeq ==
    [n \in 1..27 |->
        <<((n - 1) \div 9) - 1, (((n - 1) \div 3) % 3) - 1, ((n - 1) % 3) - 1>>]

Offsets == {OffsetSeq[n] : n \in 1..27}

Origin == <<0, 0, 0>>

\* A block of the new generation before the callback fills it.
FreshBlock(coord) ==
    [base_coord |-> <<coord[1] * BlockSize, coord[2] * BlockSize,
                      coord[3] * BlockSize>>,
     nodes |-> 0,
     particles |-> <<>>]

\* Grid::Ancestors of the block at coord: an[offset] is the block of the old
\* generation at coord + offset, or NoBlock.
Ancestors(g, coord) ==
    [o \in Offsets |->
        LET cc == VAddInts(coord, o)
        IN  IF cc \in DOMAIN g THEN g[cc] ELSE NoBlock]

\* The range without the half-cell shift.
ParticleRangeUnshifted(b) ==
    <<VecOfInts(b.base_coord),
      VecOfInts(VAddInts(b.base_coord, <<BlockSize, BlockSize, BlockSize>>))>>

\* Vector particle_range[2] of block b.
ParticleRange(b) ==
    <<VSub(VecOfInts(b.base_coord), Vec(Dec(5, -1), Dec(5, -1), Dec(5, -1))),
      VSub(VecOfInts(VAddInts(b.base_coord,
                              <<BlockSize, BlockSize, BlockSize>>)),
           Vec(Dec(5, -1), Dec(5, -1), Dec(5, -1)))>>

\* The test with the upper bound included.
InRangeClosed(range, p) ==
    LET grid_pos == VScale(p.position, inv_dx)
    IN  VLe(range[1], grid_pos) /\ VLe(grid_pos, range[2])

\* particle_range[0] <= grid_pos && grid_pos < particle_range[1]
InRange(range, p) ==
    LET grid_pos == VScale(p.position, inv_dx)
    IN  VLe(range[1], grid_pos) /\ VLt(grid_pos, range[2])

\* Block::add_particle for every particle of ps that is in range, in order.
GatherFrom(ps, range) == SelectSeq(ps, LAMBDA p : InRange(range, p))

\* The loop over an.data from its n-th entry on.
RECURSIVE Gather(_, _, _)
Gather(an, range, n) ==
    IF n > 27 THEN <<>>
    ELSE LET ab == an[OffsetSeq[n]]
         IN  (IF ab = NoBlock THEN <<>> ELSE GatherFrom(ab.particles, range))
             \o Gather(an, range, n + 1)

\* TC_ASSERT(an[Vector3i(0)]) of the callback fails.
AssertFails(an) == an[Origin] = NoBlock

\* The callback after its TC_ASSERT: the memcpy of the nodes and the gather
\* of the particles into the new block b.
BlockFill(b, an) ==
    LET particle_range == ParticleRange(b)
    IN  [base_coord |-> b.base_coord,
         nodes |-> an[Origin].nodes,
         particles |-> b.particles \o Gather(an, particle_range, 1)]

\* The callback without its TC_ASSERT: a block with no ancestor of its own
\* coordinate is filled from the others.
BlockUpdateUnchecked(b, an) ==
    [failed |-> FALSE,
     block |-> IF AssertFails(an)
               THEN [b EXCEPT !.particles =
                                  @ \o Gather(an, ParticleRange(b), 1)]
               ELSE BlockFill(b, an)]

\* The callback SPHTestPangu::substep hands to grid.advance, for the new
\* block b and its ancestors an. A failed TC_ASSERT ends the run before b is
\* written.
BlockUpdate(b, an) ==
    IF AssertFails(an)
    THEN [failed |-> TRUE, block |-> b]
    ELSE [failed |-> FALSE, block |-> BlockFill(b, an)]

\* The blocks of generation g.
Touched(g) == {coord \in DOMAIN g : g[coord] # NoBlock}

\* TaichiGrid::advance(callback, false): the new generation has the blocks
\* of the old one, each filled by the callback from its ancestors; then the
\* new generation replaces the old.
GridAdvance(g) ==
    [coord \in DOMAIN g |->
        IF g[coord] = NoBlock THEN NoBlock
        ELSE BlockUpdate(FreshBlock(coord), Ancestors(g, coord)).block]

\* A callback of the pass fails its TC_ASSERT.
GridAdvanceFails(g) ==
    \E coord \in Touched(g) : AssertFails(Ancestors(g, coord))

\* SPHTestPangu::substep on the fields <<current_frame, grid, outputs>>:
\* current_frame += 1; grid.advance(...); output(...).
SubstepPangu(cf, g, out) ==
    IF GridAdvanceFails(g)
    THEN [current_frame |-> cf + 1, grid |-> g, outputs |-> out,
          failed |-> TRUE]
    ELSE [current_frame |-> cf + 1, grid |-> GridAdvance(g),
          outputs |-> out + 1, failed |-> FALSE]

\* SPHTestPangu::SPHTestPangu: node_range is never set, the region of block
\* coordinates it bounds is empty and no block is touched.
EmptyGrid == [coord \in GridCoords |-> NoBlock]

\* ---------------------------------------------------------------- driver

\* State of the variables a specification does not follow.
IdleBF ==
    /\ particles = <<>>
    /\ idx = 0
    /\ snap = <<>>
    /\ trace = <<>>
    /\ initial = <<>>
    /\ nsub = 0

IdleGrid ==
    /\ grid = EmptyGrid
    /\ prev = EmptyGrid
    /\ passes = 0
    /\ failed = FALSE

IdleBlock ==
    /\ block_in = <<>>
    /\ block_out = <<>>

IdleDriver ==
    /\ pc = "idle"
    /\ t = 0
    /\ i = 0
    /\ current_frame = 0
    /\ outputs = 0
    /\ advances = 0
    /\ substeps = 0

\* The sph task after make_unique: params[0] == "bf" chooses the brute-force
\* class, anything else the block-grid class; current_frame = 0.
Init ==
    /\ variant \in {"bf", "pangu"}
    /\ pc = "sph_loop"
    /\ t = 0
    /\ i = 0
    /\ current_frame = 0
    /\ outputs = 0
    /\ advances = 0
    /\ substeps = 0
    /\ IdleBF
    /\ IdleGrid
    /\ IdleBlock

\* The truncating variant of the loop condition: i < (int)(frame_dt / dt).
AdvanceLoopCondTruncating(n) == n < Trunc(FDiv(frame_dt, dt))

\* i < frame_dt / dt, with i converted to real.
AdvanceLoopCond(n) == FLt(FromInt(n), FDiv(frame_dt, dt))

\* for (int t = 0; t < sph->total_frames; t++) sph->advance(): advance() is
\* entered.
AdvanceEnter ==
    /\ pc = "sph_loop"
    /\ t < total_frames
    /\ pc' = "advance_loop"
    /\ i' = 0
    /\ substeps' = 0
    /\ UNCHANGED <<variant, t, current_frame, outputs, advances>>
    /\ UNCHANGED <<bfVars, gridVars, blockVars>>

\* One turn of the loop of advance(): substep(). The brute-force substep
\* touches the particle vector only (SpecBF follows it); the block-grid
\* substep counts a frame and writes a snapshot of its own.
SubstepCall ==
    /\ pc = "advance_loop"
    /\ AdvanceLoopCond(i)
    /\ i' = i + 1
    /\ substeps' = substeps + 1
    /\ IF variant = "bf"
       THEN /\ UNCHANGED <<pc, current_frame, outputs>>
            /\ UNCHANGED gridVars
       ELSE LET r == SubstepPangu(current_frame, grid, outputs)
            IN  /\ current_frame' = r.current_frame
                /\ outputs' = r.outputs
                /\ grid' = r.grid
                /\ prev' = grid
                /\ failed' = r.failed
                /\ pc' = IF r.failed THEN "aborted" ELSE pc
                /\ UNCHANGED passes
    /\ UNCHANGED <<variant, t, advances>>
    /\ UNCHANGED <<bfVars, blockVars>>

\* The loop of advance() is over: current_frame += 1; output(...); and the
\* next turn of the loop of the sph task.
AdvanceExit ==
    /\ pc = "advance_loop"
    /\ ~AdvanceLoopCond(i)
    /\ current_frame' = current_frame + 1
    /\ outputs' = outputs + 1
    /\ advances' = advances + 1
    /\ t' = t + 1
    /\ pc' = "sph_loop"
    /\ UNCHANGED <<variant, i, substeps>>
    /\ UNCHANGED <<bfVars, gridVars, blockVars>>

\* The loop of the sph task is over: the task returns.
Finish ==
    /\ pc = "sph_loop"
    /\ ~(t < total_frames)
    /\ pc' = "done"
    /\ UNCHANGED <<variant, t, i, current_frame, outputs, advances, substeps>>
    /\ UNCHANGED <<bfVars, gridVars, blockVars>>

Next == AdvanceEnter \/ SubstepCall \/ AdvanceExit \/ Finish

Spec == Init /\ [][Next]_vars

\* ----------------------------------------------------------- brute force

\* A Particle: position and velocity are Vector3f, whose fourth lane
\* (position[3], velocity[3]) substep() uses as scratch for the inverse
\* density and the pressure.
Particle(pos, vel) ==
    [position |-> pos, velocity |-> vel, position3 |-> Zero, velocity3 |-> Zero]

\* dpos2 < h * h for dpos = q.position - p.position
Near(ps, p, q) ==
    FLt(length2(VSub(ps[q].position, ps[p].position)), FMul(h, h))

\* The density loop of particle p over the particles from q on, rho so far.
RECURSIVE RhoLoop(_, _, _, _)
RhoLoop(ps, p, q, rho) ==
    IF q > Len(ps) THEN rho
    ELSE LET dpos == VSub(ps[q].position, ps[p].position)
             dpos2 == length2(dpos)
         IN  RhoLoop(ps, p, q + 1,
                     IF FLt(dpos2, FMul(h, h))
                     THEN FAdd(rho, FMax(Zero, FPow(FSub(FMul(h, h), dpos2), 3)))
                     ELSE rho)

\* The density loop over the other particles only: q = p is skipped.
RECURSIVE RhoLoopOthers(_, _, _, _)
RhoLoopOthers(ps, p, q, rho) ==
    IF q > Len(ps) THEN rho
    ELSE LET dpos == VSub(ps[q].position, ps[p].position)
             dpos2 == length2(dpos)
         IN  RhoLoopOthers(ps, p, q + 1,
                 IF q # p /\ FLt(dpos2, FMul(h, h))
                 THEN FAdd(rho, FMax(Zero, FPow(FSub(FMul(h, h), dpos2), 3)))
                 ELSE rho)

DensityRhoWithoutSelf(ps, p) == FMul(RhoLoopOthers(ps, p, 1, Zero), c)

\* rho of particle p after rho *= c.
DensityRho(ps, p) == FMul(RhoLoop(ps, p, 1, Zero), c)

\* The density pass for particle p: lines 76-90.
DensityParticle(ps, p) ==
    LET rho == DensityRho(ps, p)
    IN  [ps EXCEPT
            ![p].position3 = FDiv(FromInt(1), rho),
            ![p].velocity3 =
                FMul(k, FSub(FPow(FDiv(rho, rho0), 7), FromInt(1)))]

\* The force loop of particle p over the particles from q on, pressure so
\* far.
RECURSIVE PressureLoop(_, _, _, _)
PressureLoop(ps, p, q, pressure) ==
    IF q > Len(ps) THEN pressure
    ELSE LET inv_rho == ps[p].position3
             dpos == VSub(ps[q].position, ps[p].position)
             dpos2 == length2(dpos)
             inv_rho1 == ps[q].position3
             grad == VScale(dpos, FMul(FromInt(-6), FSub(FMul(h, h), dpos2)))
             coef == FAdd(FMul(FMul(ps[p].velocity3, inv_rho), inv_rho),
                          FMul(FMul(ps[q].velocity3, inv_rho1), inv_rho1))
         IN  PressureLoop(ps, p, q + 1,
                          IF FLt(dpos2, FMul(h, h))
                          THEN VAdd(pressure, VScale(grad, coef))
                          ELSE pressure)

\* Vector3f pressure of particle p after its loop.
Pressure(ps, p) == PressureLoop(ps, p, 1, VZero)

\* Vector3f force = (k * pressure + gravity) * dt
Force(pressure) == VScale(VAdd(VScale(pressure, k), gravity), dt)

\* A clamp of axis a at a lower bound: lines 113-124.
ClampLow(P, a, bound) ==
    IF FLt(P.position[a], bound)
    THEN [P EXCEPT !.position[a] = bound,
                   !.velocity[a] = FMax(P.velocity[a], Zero)]
    ELSE P

\* A clamp of axis a at an upper bound: lines 125-132.
ClampHigh(P, a, bound) ==
    IF FLt(bound, P.position[a])
    THEN [P EXCEPT !.position[a] = bound,
                   !.velocity[a] = FMin(P.velocity[a], Zero)]
    ELSE P

\* The five clamps of substep(), in order: y at h / 2 below, x and z at 0
\* below and at 1 above.
Clamp(P) ==
    ClampHigh(
        ClampHigh(
            ClampLow(
                ClampLow(
                    ClampLow(P, 2, FDiv(h, FromInt(2))),
                    1, Zero),
                3, Zero),
            1, FromInt(1)),
        3, FromInt(1))

\* Lines 109-112: the scratch lanes are zeroed, then velocity += force * dt
\* and position += velocity * dt.
Integrate(P, force) ==
    LET v == VAdd(P.velocity, VScale(force, dt))
    IN  [position |-> VAdd(P.position, VScale(v, dt)),
         velocity |-> v,
         position3 |-> Zero,
         velocity3 |-> Zero]

\* The force pass for particle p: lines 92-133.
ForceParticle(ps, p) ==
    [ps EXCEPT ![p] = Clamp(Integrate(ps[p], Force(Pressure(ps, p))))]

\* The other particles the loop of particle p finds within h.
Neighbours(ps, p) == {q \in 1..Len(ps) : q # p /\ Near(ps, p, q)}

\* What trace keeps of particle p: rho of its last density step and the
\* neighbours that step found (dnear); pressure and force of its last force
\* step and the neighbours that step found (fnear); whether a clamp has ever
\* moved it (contact) and whether it has ever had a neighbour (interacted).
NoTrace == [rho |-> Zero, dnear |-> -1, pressure |-> VZero, force |-> VZero,
            fnear |-> -1, contact |-> FALSE, interacted |-> FALSE]

\* Particle states of a run at the start of a substep: free in mid-domain
\* (at rest, as constructed), a neighbour of it within h, one sinking
\* through the floor plane, and two leaving the domain through its faces.
BFParticles ==
    { Particle(Vec(Dec(5, -1), Dec(5, -1), Dec(5, -1)), VZero),
      Particle(Vec(Dec(5, -1), Dec(51, -2), Dec(5, -1)), VZero),
      Particle(Vec(Dec(2, -1), Dec(125, -4), Dec(2, -1)),
               Vec(Zero, FromInt(-1), Zero)),
      Particle(Vec(Dec(1, -4), Dec(5, -1), Dec(9999, -4)),
               Vec(FromInt(-5), Zero, FromInt(5))),
      Particle(Vec(Dec(9999, -4), Dec(9999, -4), Dec(1, -4)),
               Vec(FromInt(5), FromInt(5), FromInt(-5))) }

RECURSIVE SeqsOf(_, _)
SeqsOf(S, n) ==
    IF n = 0 THEN {<<>>}
    ELSE {Append(s, x) : s \in SeqsOf(S, n - 1), x \in S}

InitBF ==
    /\ variant = "bf"
    /\ pc = "density"
    /\ t = 0
    /\ i = 0
    /\ current_frame = 0
    /\ outputs = 0
    /\ advances = 0
    /\ substeps = 0
    /\ \E n \in 1..MaxParticles : particles \in SeqsOf(BFParticles, n)
    /\ idx = 1
    /\ snap = particles
    /\ trace = [p \in 1..Len(particles) |-> NoTrace]
    /\ initial = particles
    /\ nsub = 0
    /\ IdleGrid
    /\ IdleBlock

\* The density pass reaches particle idx.
DensityStep ==
    /\ pc = "density"
    /\ nsub < MaxSubsteps
    /\ LET ps == DensityParticle(particles, idx)
           tr == IF idx = 1
                 THEN [p \in 1..Len(particles) |->
                          [NoTrace EXCEPT !.contact = trace[p].contact,
                                          !.interacted = trace[p].interacted]]
                 ELSE trace
           near == Cardinality(Neighbours(particles, idx))
       IN  /\ particles' = ps
           /\ trace' = [tr EXCEPT ![idx].rho = DensityRho(particles, idx),
                                  ![idx].dnear = near,
                                  ![idx].interacted = (@ \/ near > 0)]
           /\ IF idx < Len(particles)
              THEN /\ idx' = idx + 1
                   /\ UNCHANGED <<pc, snap>>
              ELSE /\ idx' = 1
                   /\ pc' = "force"
                   /\ snap' = ps
    /\ UNCHANGED <<variant, t, i, current_frame, outputs, advances, substeps>>
    /\ UNCHANGED <<initial, nsub>>
    /\ UNCHANGED <<gridVars, blockVars>>

\* The force pass reaches particle idx; after the last particle substep()
\* returns.
ForceStep ==
    /\ pc = "force"
    /\ LET pressure == Pressure(particles, idx)
           moved == Integrate(particles[idx], Force(pressure))
           near == Cardinality(Neighbours(particles, idx))
       IN  /\ particles' = ForceParticle(particles, idx)
           /\ trace' = [trace EXCEPT
                           ![idx].pressure = pressure,
                           ![idx].force = Force(pressure),
                           ![idx].fnear = near,
                           ![idx].interacted = (@ \/ near > 0),
                           ![idx].contact = (@ \/ Clamp(moved) # moved)]
    /\ IF idx < Len(particles)
       THEN /\ idx' = idx + 1
            /\ UNCHANGED <<pc, nsub>>
       ELSE /\ idx' = 1
            /\ nsub' = nsub + 1
            /\ pc' = "density"
    /\ UNCHANGED <<variant, t, i, current_frame, outputs, advances, substeps>>
    /\ UNCHANGED <<snap, initial>>
    /\ UNCHANGED <<gridVars, blockVars>>

NextBF == DensityStep \/ ForceStep

SpecBF == InitBF /\ [][NextBF]_vars

\* substep() has just returned.
SubstepEnded == pc = "density" /\ idx = 1 /\ nsub > 0

\* ------------------------------------------------- claims on the driver

\* advance() has returned (and the next one has not been entered).
BetweenAdvances == pc \in {"sph_loop", "done"}

\* C1: for both variants every advance() calls the output hook exactly once:
\* after n calls of advance() the hook has been called n times.
C1_OneOutputPerAdvance == BetweenAdvances => outputs = advances

\* C2: for both variants every advance() adds exactly 1 to current_frame, and
\* the run ends in Done after total_frames calls of advance() with
\* current_frame = total_frames.
C2_FrameCounterCountsAdvances ==
    /\ BetweenAdvances => current_frame = advances
    /\ pc = "done" => advances = total_frames /\ current_frame = total_frames

\* A time of the source in units of 10^-7, exactly.
Ticks(x) == x.m * Pow10(x.e + 7)

\* C3 as the spec has it: one advance() calls substep() floor(frame_dt / dt)
\* times; a remainder of frame_dt / dt gets no substep.
C3_SubstepsPerAdvanceFloor ==
    (BetweenAdvances /\ advances > 0)
        => substeps = Ticks(frame_dt) \div Ticks(dt)

\* C3, amended: one advance() calls substep() n times for the least integer
\* n with n * dt >= frame_dt: a remainder of frame_dt / dt gets one substep
\* more.
C3_SubstepsPerAdvanceCeiling ==
    (BetweenAdvances /\ advances > 0)
        => /\ substeps * Ticks(dt) >= Ticks(frame_dt)
           /\ (substeps - 1) * Ticks(dt) < Ticks(frame_dt)

\* An advance() has returned, frame_dt is no multiple of dt, and the
\* advance() ran a substep for the remainder.
C3_AdvanceWithRemainder ==
    /\ pc = "sph_loop"
    /\ advances = 1
    /\ Ticks(frame_dt) % Ticks(dt) # 0
    /\ substeps = Ticks(frame_dt) \div Ticks(dt) + 1

\* ------------------------------------------ claims on the brute force

\* The force pass in a given order of the particles.
RECURSIVE ForcePass(_, _)
ForcePass(ps, order) ==
    IF order = <<>> THEN ps
    ELSE ForcePass(ForceParticle(ps, Head(order)), Tail(order))

Orders(n) ==
    {o \in SeqsOf(1..n, n) : \A a, b \in 1..n : a # b => o[a] # o[b]}

\* What the force step of particle idx is about to read of every particle q
\* is what the density pass left there: q's position, and q's scratch lanes
\* when q is within h.
ForceReadsWhatDensityPassLeft ==
    pc = "force" =>
        \A q \in 1..Len(particles) :
            /\ particles[q].position = snap[q].position
            /\ Near(particles, idx, q) =>
                   /\ particles[q].position3 = snap[q].position3
                   /\ particles[q].velocity3 = snap[q].velocity3

\* The particles after the substep are what the force pass gives in any
\* order of the particles.
ForcePassOrderFree ==
    SubstepEnded =>
        \A o \in Orders(Len(particles)) : ForcePass(snap, o) = particles

\* C4: in the force pass every value read of another particle is the value
\* the density pass left, none is one a force update of the same pass wrote,
\* and so the state after the substep is the same for every order of the
\* particles.
C4_ForcePassReadsOnlyDensityPassValues ==
    ForceReadsWhatDensityPassLeft /\ ForcePassOrderFree

\* C5: a substep changes a velocity by total_force * dt, so a particle that
\* started at rest and has had neither a neighbour nor a clamp has velocity
\* gravity * t after nsub substeps, t = nsub * dt.
C5_FreeFallVelocity ==
    SubstepEnded =>
        \A p \in 1..Len(particles) :
            (/\ initial[p].velocity = VZero
             /\ ~trace[p].contact
             /\ ~trace[p].interacted)
                => particles[p].velocity
                       = VScale(gravity, FMul(FromInt(nsub), dt))

\* The lower bounds of the domain: the floor plane h / 2 on y, 0 on x and z.
LowerBound == Vec(Zero, FDiv(h, FromInt(2)), Zero)

\* C6: after every substep every particle is, on every axis, between the
\* axis's lower bound and the domain's upper bound.
C6_ParticlesInsideDomain ==
    SubstepEnded =>
        \A p \in 1..Len(particles) : \A a \in Axes :
            /\ FLe(LowerBound[a], particles[p].position[a])
            /\ FLe(particles[p].position[a], domain_size[a])

\* C7 as the spec has it: a particle with no other particle within h has
\* rho = 0 after the density pass (and no pressure force).
C7_IsolatedDensityZero ==
    \A p \in 1..Len(trace) :
        /\ trace[p].dnear = 0 => trace[p].rho = Zero
        /\ trace[p].fnear = 0 => trace[p].pressure = VZero

\* C7, amended: a particle with no other particle within h has the rho of
\* its own kernel term, c * (h * h)^3 > 0, not zero; its pressure force is
\* zero and its force is gravity * dt.
C7_IsolatedDensityIsSelfTerm ==
    \A p \in 1..Len(trace) :
        /\ trace[p].dnear = 0 =>
               /\ trace[p].rho = FMul(FPow(FMul(h, h), 3), c)
               /\ trace[p].rho.m > 0
               /\ ~IsNaN(trace[p].rho)
        /\ trace[p].fnear = 0 =>
               /\ trace[p].pressure = VZero
               /\ trace[p].force = VScale(gravity, dt)

\* A substep of a single particle is over: both passes found it alone.
C7_IsolatedParticleStepped ==
    /\ SubstepEnded
    /\ Len(particles) = 1
    /\ trace[1].dnear = 0
    /\ trace[1].fnear = 0
    /\ trace[1].rho.m > 0

\* -------------------------------------------------- block grid: the runs

\* A particle of the grid. id names the particle across generations (the
\* source's Particle has no such field: the callback copies particles whole).
GridParticle(n, pos) == [position |-> pos, velocity |-> VZero, id |-> n]

\* Positions of the model's particles: in grid cells 1.0, 3.5 (the shifted
\* boundary of blocks 0 and 1), 4.0 (their unshifted boundary) and 7.6 on x
\* with 1.0 on y, and 1.0 on x with 3.5 on y.
GridPositions ==
    {Vec(x, Dec(5, -2), Dec(5, -2)) :
        x \in {Dec(5, -2), Dec(175, -3), Dec(2, -1), Dec(38, -2)}}
    \cup {Vec(Dec(5, -2), Dec(175, -3), Dec(5, -2))}

\* The sets of touched blocks of the model's grids: a row of three, a row
\* with its middle block missing, and a column of two.
Topologies ==
    { {<<0, 0, 0>>, <<1, 0, 0>>, <<2, 0, 0>>},
      {<<0, 0, 0>>, <<2, 0, 0>>},
      {<<0, 0, 0>>, <<0, 1, 0>>} }

\* The field nodes of the block touched at coord: any content, different
\* from block to block and from a fresh block's.
NodesAt(coord) == 1 + coord[1] + 3 * coord[2]

\* The particles of where (particle -> <<block, position>>) that are in the
\* block at coord, from particle n on.
RECURSIVE Residents(_, _, _)
Residents(where, coord, n) ==
    IF n > Len(where) THEN <<>>
    ELSE (IF where[n][1] = coord
          THEN <<GridParticle(n, where[n][2])>> ELSE <<>>)
         \o Residents(where, coord, n + 1)

\* The grid with the blocks of T touched and the particles of where in them.
GridOf(T, where) ==
    [coord \in GridCoords |->
        IF coord \in T
        THEN [base_coord |-> FreshBlock(coord).base_coord,
              nodes |-> NodesAt(coord),
              particles |-> Residents(where, coord, 1)]
        ELSE NoBlock]

\* Grids at the start of a substep: every particle is in one touched block,
\* wherever the last substep has moved it to.
InitGrids ==
    UNION { {GridOf(T, where) : where \in SeqsOf(T \X GridPositions, n)} :
                T \in Topologies, n \in 1..MaxGridParticles }

InitGrid ==
    /\ variant = "pangu"
    /\ pc = "substep"
    /\ t = 0
    /\ i = 0
    /\ current_frame = 0
    /\ outputs = 0
    /\ advances = 0
    /\ substeps = 0
    /\ IdleBF
    /\ grid \in InitGrids
    /\ prev = grid
    /\ passes = 0
    /\ failed = FALSE
    /\ IdleBlock

\* SPHTestPangu::substep: one migration pass.
MigrationPass ==
    /\ pc = "substep"
    /\ passes < MaxPasses
    /\ LET r == SubstepPangu(current_frame, grid, outputs)
       IN  /\ current_frame' = r.current_frame
           /\ outputs' = r.outputs
           /\ grid' = r.grid
           /\ failed' = r.failed
           /\ pc' = IF r.failed THEN "aborted" ELSE pc
    /\ prev' = grid
    /\ passes' = passes + 1
    /\ UNCHANGED <<variant, t, i, advances, substeps>>
    /\ UNCHANGED <<bfVars, blockVars>>

NextGrid == MigrationPass

SpecGrid == InitGrid /\ [][NextGrid]_vars

\* One call of the callback: any block coordinate of the model with the
\* ancestors a grid gives it, its own coordinate touched or not.
InitBlock ==
    /\ IdleDriver
    /\ variant = "pangu"
    /\ IdleBF
    /\ IdleGrid
    /\ \E g \in InitGrids : \E coord \in GridCoords :
           block_in = [b |-> FreshBlock(coord), an |-> Ancestors(g, coord)]
    /\ block_out = <<>>

CallBlockUpdate ==
    /\ block_out = <<>>
    /\ block_out' = BlockUpdate(block_in.b, block_in.an)
    /\ UNCHANGED <<driverVars, bfVars, gridVars, block_in>>

NextBlock == CallBlockUpdate

SpecBlock == InitBlock /\ [][NextBlock]_vars

\* ------------------------------------------------ claims on the block grid

\* Coordinate x of a position in half grid cells times 10^7, exactly.
HalfCells(x) == 2 * N * Ticks(x)

\* base_coord - 0.5 <= p < base_coord + Block::size - 0.5 on every axis, for
\* p the position pos in grid cells and the block at coord, in integers.
InExtent(coord, pos) ==
    \A a \in Axes :
        /\ (2 * coord[a] * BlockSize - 1) * Pow10(7) <= HalfCells(pos[a])
        /\ HalfCells(pos[a]) < (2 * (coord[a] + 1) * BlockSize - 1) * Pow10(7)

\* The block whose extent covers pos.
Covering(pos) == CHOOSE coord \in GridCoords : InExtent(coord, pos)

\* The blocks at coord and at other are the same or neighbours.
Adjacent(coord, other) ==
    \A a \in Axes : Abs(coord[a] - other[a]) <= 1

\* The particles of block coord of generation g.
ParticlesOf(g, coord) ==
    IF coord \in Touched(g)
    THEN {g[coord].particles[n] : n \in 1..Len(g[coord].particles)}
    ELSE {}

\* The number of entries of particle id in the buffers of generation g.
RECURSIVE Copies(_, _, _)
Copies(g, id, coords) ==
    IF coords = {} THEN 0
    ELSE LET coord == CHOOSE x \in coords : TRUE
         IN  Len(SelectSeq(g[coord].particles, LAMBDA p : p.id = id))
             + Copies(g, id, coords \ {coord})

\* The particles of the neighbourhood of block coord in generation g.
Neighbourhood(g, coord) ==
    UNION {ParticlesOf(g, other) :
              other \in {x \in GridCoords : Adjacent(coord, x)}}

\* C8: after a migration pass, a particle that was in a block of the
\* previous generation, has moved by less than a block width (the block
\* covering it is that block or a neighbour of it) and is covered by a
\* touched block, is in exactly one buffer of the new generation.
C8_MigratedExactlyOnce ==
    (passes > 0 /\ ~failed) =>
        \A coord \in Touched(prev) : \A p \in ParticlesOf(prev, coord) :
            (/\ Covering(p.position) \in Touched(prev)
             /\ Adjacent(coord, Covering(p.position)))
                => Copies(grid, p.id, Touched(grid)) = 1

\* A pass has moved a particle that lies exactly on the shifted boundary of
\* two touched blocks from the one to the other.
C8_BoundaryParticleMigrated ==
    /\ passes > 0
    /\ ~failed
    /\ \E coord \in Touched(prev) : \E p \in ParticlesOf(prev, coord) :
           LET cov == Covering(p.position)
           IN  /\ cov # coord
               /\ cov \in Touched(prev)
               /\ Adjacent(coord, cov)
               /\ \E a \in Axes :
                      HalfCells(p.position[a])
                          = (2 * cov[a] * BlockSize - 1) * Pow10(7)
               /\ p \in ParticlesOf(grid, cov)

\* C9: after any number of migration passes, the buffer of each block holds
\* exactly the particles of its ancestor neighbourhood that are in its
\* shifted half-open extent, each once; a particle in the extent of its
\* block stays in that block.
C9_BufferIsShiftedExtent ==
    (passes > 0 /\ ~failed) =>
        /\ \A coord \in Touched(grid) :
               /\ ParticlesOf(grid, coord)
                      = {p \in Neighbourhood(prev, coord) :
                            InExtent(coord, p.position)}
               /\ Len(grid[coord].particles)
                      = Cardinality(ParticlesOf(grid, coord))
        /\ \A coord \in Touched(prev) : \A p \in ParticlesOf(prev, coord) :
               InExtent(coord, p.position) => p \in ParticlesOf(grid, coord)

\* After a second pass a block still holds a particle that is within half a
\* cell below its base coordinate, and had it before that pass.
C9_StationaryInShiftedExtent ==
    /\ passes >= 2
    /\ ~failed
    /\ \E coord \in Touched(grid) : \E p \in ParticlesOf(grid, coord) :
           /\ p \in ParticlesOf(prev, coord)
           /\ InExtent(coord, p.position)
           /\ \E a \in Axes :
                  HalfCells(p.position[a]) < 2 * coord[a] * BlockSize * Pow10(7)

\* C10: a block update whose ancestor at offset (0, 0, 0) is absent fails and
\* leaves the new block as it was, no node copied and no particle gathered;
\* one whose ancestor at offset (0, 0, 0) is present does not fail, whatever
\* other ancestors are absent, and the new block has that ancestor's nodes.
C10_CentreAncestorRequired ==
    block_out # <<>> =>
        /\ block_in.an[Origin] = NoBlock
               => /\ block_out.failed
                  /\ block_out.block = block_in.b
        /\ block_in.an[Origin] # NoBlock
               => /\ ~block_out.failed
                  /\ block_out.block.nodes = block_in.an[Origin].nodes

\* A block update has failed for a block with no ancestor at offset
\* (0, 0, 0) while a neighbouring ancestor held a particle of its range.
C10_FailedBeforeGather ==
    /\ block_out # <<>>
    /\ block_out.failed
    /\ block_in.an[Origin] = NoBlock
    /\ Gather(block_in.an, ParticleRange(block_in.b), 1) # <<>>

=============================================================================
